---- MODULE Spec2Model ----
(***************************************************************************)
(* A model of one node of simple-pow-chain: the chain and block model      *)
(* (block.rs, blockchain.rs), transactions (transaction.rs) and the node   *)
(* runtime (node.rs): the mining loop, the inbound connection handlers     *)
(* and the chain synchronisation, as concurrent tasks over the shared      *)
(* chain and transaction pool.                                             *)
(*                                                                         *)
(* Text (addresses, decimal numbers, hex digests) is a sequence of tokens, *)
(* and format!/join are concatenation.  A SHA-256 hex digest is modelled   *)
(* as an ideal hash: a run of "0" characters whose length is a fixed       *)
(* function of the preimage, the mark "h" (the first non-zero digit), and  *)
(* the preimage itself, so that two digests are equal exactly when their   *)
(* preimages are.                                                          *)
(***************************************************************************)
EXTENDS Integers, Sequences, FiniteSets, TLC

(* ------------------------------ bounds -------------------------------- *)

\* The chain never grows beyond MaxChain blocks in the model.
MaxChain == 2
\* Number of request_blockchain runs that may be started.
MaxSyncRuns == 1
\* The largest nonce the proof-of-work search tries.
MaxNonce == 9
\* Transactions in the pool and in a block being mined, together.
MaxPool == 2

(* ----------------------------- text ----------------------------------- *)

Digits == <<"0", "1", "2", "3", "4", "5", "6", "7", "8", "9">>

RECURSIVE Dec(_)
\* format!("{}", n) of an unsigned integer: its decimal digits.
Dec(n) == IF n < 10 THEN <<Digits[n + 1]>> ELSE Dec(n \div 10) \o <<Digits[(n % 10) + 1]>>

\* "0".repeat(n)
Repeat0(n) == [i \in 1..n |-> "0"]

\* s.starts_with(p)
StartsWith(s, p) == Len(s) >= Len(p) /\ SubSeq(s, 1, Len(p)) = p

\* The value a token adds to the digest's weight.
Code(c) ==
    CASE c = "0" -> 0 [] c = "1" -> 1 [] c = "2" -> 2 [] c = "3" -> 3
      [] c = "4" -> 4 [] c = "5" -> 5 [] c = "6" -> 6 [] c = "7" -> 7
      [] c = "8" -> 8 [] c = "9" -> 9 [] OTHER -> 3

\* The sum of the tokens' values, modulo 8.
Weight(data) ==
    LET sum[n \in 0..Len(data)] == IF n = 0 THEN 0 ELSE (Code(data[n]) + sum[n - 1]) % 8
    IN  sum[Len(data)]

\* The number of leading "0" characters of the digest of data.
Zeros(data) ==
    LET w == (Weight(data) + 3) % 8
    IN  IF w = 0 THEN 3 ELSE IF w = 4 THEN 2 ELSE IF w % 2 = 0 THEN 1 ELSE 0

\* hex::encode(Sha256(data))
Sha256Hex(data) == Repeat0(Zeros(data)) \o <<"h">> \o data

(* -------------------------- transactions ------------------------------ *)

\* Transaction::new
NewTransaction(from, to, amount) ==
    [from |-> from, to |-> to, amount |-> amount, signature |-> "None", public_key |-> "None"]

\* Transaction::coinbase
Coinbase(to, amount) ==
    [from |-> <<"coinbase">>, to |-> to, amount |-> amount, signature |-> "None", public_key |-> "None"]

\* Transaction::hash
TxHash(tx) == Sha256Hex(tx.from \o tx.to \o Dec(tx.amount))

(* ------------------------------ blocks -------------------------------- *)

RECURSIVE JoinHashes(_)
\* transactions.iter().map(|tx| tx.hash()).collect().join("")
JoinHashes(txs) == IF txs = <<>> THEN <<>> ELSE TxHash(Head(txs)) \o JoinHashes(Tail(txs))

\* Block::calculate_hash
CalculateHash(b) ==
    Sha256Hex(Dec(b.index) \o Dec(b.timestamp) \o b.prev_hash \o Dec(b.nonce)
              \o JoinHashes(b.transactions))

\* Block::new, at clock reading ts
NewBlock(index, prev_hash, transactions, difficulty, ts) ==
    LET b == [index |-> index, timestamp |-> ts, prev_hash |-> prev_hash, hash |-> <<>>,
              nonce |-> 0, difficulty |-> difficulty, transactions |-> transactions]
    IN  [b EXCEPT !.hash = CalculateHash(b)]

RECURSIVE Mine(_)
\* Block::mine
Mine(b) ==
    LET h == CalculateHash(b)
    IN  IF StartsWith(h, Repeat0(b.difficulty)) \/ b.nonce >= MaxNonce
        THEN [b EXCEPT !.hash = h]
        ELSE Mine([b EXCEPT !.nonce = b.nonce + 1])

\* Block::is_valid_pow
IsValidPow(b) == b.hash = CalculateHash(b) /\ StartsWith(b.hash, Repeat0(b.difficulty))

\* Block::genesis
Genesis(difficulty, ts) == Mine(NewBlock(0, <<"0">>, <<>>, difficulty, ts))

(* ------------------------------ chain --------------------------------- *)

\* Blockchain::new
NewBlockchain(difficulty, ts) == [chain |-> <<Genesis(difficulty, ts)>>, difficulty |-> difficulty]

\* Blockchain::empty
EmptyBlockchain(difficulty) == [chain |-> <<>>, difficulty |-> difficulty]

Last(s) == s[Len(s)]

PushOverTail(chain, block) == Append(SubSeq(chain, 1, Len(chain) - 1), block)
\* bc.chain.push(block), as mine_block and the NewBlock handler call it
Push(chain, block) == Append(chain, block)

AddBlockUnmined(bc, transactions, ts) ==
    [bc EXCEPT !.chain = Append(bc.chain,
        NewBlock(IF bc.chain = <<>> THEN 0 ELSE Last(bc.chain).index + 1,
                 IF bc.chain = <<>> THEN <<"0">> ELSE Last(bc.chain).hash,
                 transactions, bc.difficulty, ts))]
\* Blockchain::add_block
AddBlock(bc, transactions, ts) ==
    LET index == IF bc.chain = <<>> THEN 0 ELSE Last(bc.chain).index + 1
        prev  == IF bc.chain = <<>> THEN <<"0">> ELSE Last(bc.chain).hash
    IN  [bc EXCEPT !.chain = Append(bc.chain, Mine(NewBlock(index, prev, transactions, bc.difficulty, ts)))]

IsValidNewBlockUnproven(bc, block) ==
    /\ block.index = (IF bc.chain = <<>> THEN 0 ELSE Last(bc.chain).index + 1)
    /\ block.prev_hash = (IF bc.chain = <<>> THEN <<"0">> ELSE Last(bc.chain).hash)
\* Blockchain::is_valid_new_block
IsValidNewBlock(bc, block) ==
    /\ block.index = (IF bc.chain = <<>> THEN 0 ELSE Last(bc.chain).index + 1)
    /\ block.prev_hash = (IF bc.chain = <<>> THEN <<"0">> ELSE Last(bc.chain).hash)
    /\ IsValidPow(block)

\* Blockchain::add_mined_block: the chain afterwards and the value returned.
AddMinedBlock(bc, block) ==
    IF IsValidNewBlock(bc, block)
    THEN [bc |-> [bc EXCEPT !.chain = Append(bc.chain, block)], ok |-> TRUE]
    ELSE [bc |-> bc, ok |-> FALSE]

\* Blockchain::is_valid
IsValid(bc) ==
    /\ bc.chain # <<>>
    /\ bc.chain[1].index = 0
    /\ bc.chain[1].prev_hash = <<"0">>
    /\ IsValidPow(bc.chain[1])
    /\ \A i \in 2..Len(bc.chain) :
          /\ bc.chain[i].index = bc.chain[i - 1].index + 1
          /\ bc.chain[i].prev_hash = bc.chain[i - 1].hash
          /\ IsValidPow(bc.chain[i])

\* A validation that takes the genesis block's hash on trust.
ValidateBlockchainLater(bc) ==
    /\ bc.chain # <<>>
    /\ bc.chain[1].index = 0
    /\ bc.chain[1].prev_hash = <<"0">>
    /\ \A i \in 2..Len(bc.chain) :
          /\ bc.chain[i].hash = CalculateHash(bc.chain[i])
          /\ StartsWith(bc.chain[i].hash, Repeat0(bc.chain[i].difficulty))
          /\ bc.chain[i].prev_hash = bc.chain[i - 1].hash
          /\ bc.chain[i].index = bc.chain[i - 1].index + 1
\* validate_blockchain (node.rs)
ValidateBlockchain(bc) ==
    /\ bc.chain # <<>>
    /\ bc.chain[1].index = 0
    /\ bc.chain[1].prev_hash = <<"0">>
    /\ \A i \in 1..Len(bc.chain) :
          /\ bc.chain[i].hash = CalculateHash(bc.chain[i])
          /\ StartsWith(bc.chain[i].hash, Repeat0(bc.chain[i].difficulty))
          /\ i > 1 => /\ bc.chain[i].prev_hash = bc.chain[i - 1].hash
                      /\ bc.chain[i].index = bc.chain[i - 1].index + 1

(* --------------------------- node runtime ----------------------------- *)

\* Node.listen_addr
ListenAddr == <<"127.0.0.1:8080">>

\* The --miner argument of the node command.
MinerAddress == <<"miner">>

\* Node.peers
Peers == <<"peer1", "peer2">>

\* The --difficulty argument of the node command (4 when it is not given).
Difficulty == 1

\* Clock readings Block::new may see.
Clock == {1}

\* A transfer, and the same transfer signed: both have the same hash.
T1 == NewTransaction(<<"A">>, <<"B">>, 1)
T1s == [T1 EXCEPT !.signature = "sigA", !.public_key = "keyA"]

\* The transactions other nodes send.
InboundTxs == {T1}

\* The placeholder mine_block creates when the pool is empty.
SystemTx == NewTransaction(<<"system">>, <<"system">>, 0)

\* The transaction start_mining adds to an empty pool.
RewardTx == NewTransaction(<<"miner_">> \o ListenAddr, <<"reward">>, 1)

Range(s) == {s[i] : i \in 1..Len(s)}

\* chain.last().map(|b| b.index + 1).unwrap_or(0)
ExpectedIndex(bc) == IF bc.chain = <<>> THEN 0 ELSE Last(bc.chain).index + 1

\* chain.last().map(|b| b.hash.clone()).unwrap_or("0")
ExpectedPrev(bc) == IF bc.chain = <<>> THEN <<"0">> ELSE Last(bc.chain).hash

\* chain.last().map(|b| b.index).unwrap_or(0)
CurrentIndex(bc) == IF bc.chain = <<>> THEN 0 ELSE Last(bc.chain).index

VARIABLES
    blockchain,   \* Node.blockchain: [chain, difficulty]
    tx_pool,      \* Node.tx_pool
    miner,        \* the start_mining task: its position and the locals of mine_block
    conn,         \* the handle_connection tasks
    sync,         \* the request_blockchain runs
    log,          \* the last line a handle_connection task printed about a block, and
                  \* (history) how many pool entries the append it reports removed
    committed,    \* history: the blocks mine_block returned or a handler appended, in
                  \* order, since the chain was last replaced
    observed,     \* whether this run keeps the two histories below
    sent,         \* history: the messages the node has written to its peers' streams
    heard,        \* history: the chains each request_blockchain run has received
    seed_peers,   \* SeedNode.peers
    seed_reply,   \* the last response the seed node wrote to a connection
    boot,         \* run_node: its position and its locals addr and peers
    ret,          \* the value the last call of a Blockchain method returned
    serve,        \* respond_blockchain on each connection: the clone of the chain it
                  \* took, and (history) the chains it has written to the stream
    bcast,        \* a broadcast_new_block or broadcast_new_transaction call: its
                  \* position in the peer list and (history) its attempts
    peer_node,    \* another node: its chain, and its blocks on the way to this node
    tasks         \* the tasks of a node seen as sequences of lock operations

vars == <<blockchain, tx_pool, miner, conn, sync, log, committed,
          observed, sent, heard, seed_peers, seed_reply, boot, ret,
          serve, bcast, peer_node, tasks>>

\* The state of the seed node, of run_node and of direct calls of Blockchain methods,
\* which no task of a running node touches.
elsewhere == <<seed_peers, seed_reply, boot, ret, serve, bcast, peer_node, tasks>>

\* The variables that only the specifications of single calls and of the lock
\* discipline use.
beyond == <<serve, bcast, peer_node, tasks>>

\* The inbound connection tasks that may run at once.
Conns == {1, 2}
Syncs == 1..MaxSyncRuns

NoBlock == [index |-> 0, timestamp |-> 0, prev_hash |-> <<>>, hash |-> <<>>,
            nonce |-> 0, difficulty |-> 0, transactions |-> <<>>]

MinerIdle == [pc |-> "sleep", should_mine |-> FALSE, index |-> 0, previous_hash |-> <<>>,
              difficulty |-> 0, new_block |-> NoBlock, made_dummy |-> FALSE]

ConnIdle == [pc |-> "idle", block |-> NoBlock]

NoLog == [event |-> "none", index |-> 0, expected_index |-> 0, purged |-> 0]

NoChain == [chain |-> <<>>, difficulty |-> 0]

SyncIdle == [pc |-> "idle", peer |-> 1, best_len |-> 0, has_best |-> FALSE, best_chain |-> NoChain]

\* No response written yet.
NoReply == [kind |-> "none", list |-> <<>>]

\* run_node after its start-up: the node runs with the peers it was given.
BootDone == [pc |-> "run", addr |-> ListenAddr, seed |-> FALSE, peers |-> Peers,
             asked |-> FALSE, registered |-> FALSE, synced |-> FALSE, chain_len |-> 1,
             mine |-> TRUE]

\* The model stops a chain once it has grown by MaxChain - 1 blocks beyond the length
\* run_node gave it (1 after Blockchain::new).
ChainCap == boot.chain_len + MaxChain - 1

\* No respond_blockchain call, no broadcast call, no other node, no lock view.
NoServe == [pc |-> "idle", clone |-> NoChain, frames |-> <<>>]
NoBcast == [pc |-> "idle", kind |-> "none", peer |-> 1, attempts |-> <<>>]
NoPeerNode == [chain |-> <<>>, wire |-> <<>>, agreed |-> FALSE]
NoTasks == <<>>

BeyondAtRest ==
    /\ serve = [c \in Conns |-> NoServe]
    /\ bcast = NoBcast
    /\ peer_node = NoPeerNode
    /\ tasks = NoTasks

\* The tasks of a node at rest, with no history kept.
NodeAtRest ==
    /\ tx_pool = <<>>
    /\ miner = MinerIdle
    /\ conn = [c \in Conns |-> ConnIdle]
    /\ log = NoLog
    /\ committed = <<>>
    /\ sent = {}
    /\ heard = [s \in Syncs |-> {}]

\* The seed node and the Blockchain methods untouched.
ElsewhereAtRest ==
    /\ seed_peers = {}
    /\ seed_reply = NoReply
    /\ boot = BootDone
    /\ ret = "none"
    /\ BeyondAtRest

Init ==
    /\ blockchain = NewBlockchain(Difficulty, 1)
    /\ NodeAtRest
    /\ sync = [s \in Syncs |-> SyncIdle]
    /\ ElsewhereAtRest
    /\ observed = FALSE

\* The history with message m added, when the history is kept.
Record(history, m) == IF observed THEN history \cup {m} ELSE history

(* ------------------------- start_mining loop -------------------------- *)

\* Transactions held by the pool or by mine_block.
InFlight ==
    Len(tx_pool) + (IF miner.pc \in {"check", "commit"} THEN Len(miner.new_block.transactions) ELSE 0)

\* A miner that waits for a transaction other than its own reward.
ShouldMineTransfers(pool) == \E i \in 1..Len(pool) : pool[i].to # <<"reward">>

\* should_mine: has_transactions || has_pending_rewards
ShouldMine(pool) == pool # <<>> \/ \E i \in 1..Len(pool) : pool[i].to = <<"reward">>

\* start_mining: after the sleep, look at the pool.
MinerCheckPool ==
    /\ miner.pc = "sleep"
    /\ miner' = [miner EXCEPT !.pc = "decided", !.should_mine = ShouldMine(tx_pool)]
    /\ UNCHANGED <<blockchain, tx_pool, conn, sync, log, committed>>
    /\ UNCHANGED <<observed, sent, heard>>
    /\ UNCHANGED elsewhere

\* start_mining: nothing to mine, add the reward transaction to the pool.
MinerPushReward ==
    /\ miner.pc = "decided"
    /\ ~miner.should_mine
    /\ InFlight < MaxPool
    /\ tx_pool' = Append(tx_pool, RewardTx)
    /\ miner' = MinerIdle
    /\ UNCHANGED <<blockchain, conn, sync, log, committed>>
    /\ UNCHANGED <<observed, sent, heard>>
    /\ UNCHANGED elsewhere

\* mine_block: read the tail under the chain's read lock.
MineSnapshot ==
    /\ miner.pc = "decided"
    /\ miner.should_mine
    /\ Len(blockchain.chain) < ChainCap
    /\ miner' = [miner EXCEPT !.pc = "drain",
                              !.index = ExpectedIndex(blockchain),
                              !.previous_hash = ExpectedPrev(blockchain),
                              !.difficulty = blockchain.difficulty]
    /\ UNCHANGED <<blockchain, tx_pool, conn, sync, log, committed>>
    /\ UNCHANGED <<observed, sent, heard>>
    /\ UNCHANGED elsewhere

\* transactions_to_mine: the whole pool, or the placeholder when it is empty.
TransactionsToMine(pool) == IF pool = <<>> THEN <<SystemTx>> ELSE pool

\* mine_block: drain the pool under its write lock, build the block and mine it.
MineDrain ==
    /\ miner.pc = "drain"
    /\ \E ts \in Clock :
          miner' = [miner EXCEPT !.pc = "check",
                                 !.made_dummy = (tx_pool = <<>>),
                                 !.new_block = Mine(NewBlock(miner.index, miner.previous_hash,
                                                             TransactionsToMine(tx_pool),
                                                             miner.difficulty, ts))]
    /\ tx_pool' = <<>>
    /\ UNCHANGED <<blockchain, conn, sync, log, committed>>
    /\ UNCHANGED <<observed, sent, heard>>
    /\ UNCHANGED elsewhere

\* current_index >= index
AlreadyMined(bc, index) == CurrentIndex(bc) >= index

\* for tx in new_block.transactions { tx_pool.push(tx) }
Restore(pool, b) == pool \o b.transactions

\* mine_block: the check under the read lock after mining.
MineCheck ==
    /\ miner.pc = "check"
    /\ IF AlreadyMined(blockchain, miner.index)
       THEN /\ tx_pool' = Restore(tx_pool, miner.new_block)
            /\ miner' = MinerIdle
       ELSE /\ miner' = [miner EXCEPT !.pc = "commit"]
            /\ UNCHANGED tx_pool
    /\ UNCHANGED <<blockchain, conn, sync, log, committed>>
    /\ UNCHANGED <<observed, sent, heard>>
    /\ UNCHANGED elsewhere

\* expected_index == new_block.index && expected_prev == new_block.previous_hash
CanCommit(bc, b) == ExpectedIndex(bc) = b.index /\ ExpectedPrev(bc) = b.prev_hash

\* mine_block: the double check and the append under the write lock.
MineCommit ==
    /\ miner.pc = "commit"
    /\ IF CanCommit(blockchain, miner.new_block)
       THEN /\ blockchain' = [blockchain EXCEPT !.chain = Push(@, miner.new_block)]
            /\ committed' = Append(committed, miner.new_block)
            /\ miner' = [miner EXCEPT !.pc = "broadcast"]
            /\ UNCHANGED tx_pool
       ELSE /\ tx_pool' = Restore(tx_pool, miner.new_block)
            /\ miner' = MinerIdle
            /\ UNCHANGED <<blockchain, committed>>
    /\ UNCHANGED <<conn, sync, log>>
    /\ UNCHANGED <<observed, sent, heard>>
    /\ UNCHANGED elsewhere

\* start_mining: broadcast_new_block of the returned block, then sleep.
MinerBroadcast ==
    /\ miner.pc = "broadcast"
    /\ \E reached \in SUBSET Range(Peers) :
          sent' = IF observed
                  THEN sent \cup {[to |-> p, kind |-> "NewBlock", block |-> miner.new_block] :
                                     p \in reached}
                  ELSE sent
    /\ miner' = MinerIdle
    /\ UNCHANGED <<blockchain, tx_pool, conn, sync, log, committed>>
    /\ UNCHANGED <<observed, heard>>
    /\ UNCHANGED elsewhere

(* ------------------------ handle_connection --------------------------- *)

\* A hash that is no block's of this node.
ForeignHash == Sha256Hex(<<"x">>)

\* A block another node mined, at clock reading 2.
PeerBlock(index, prev_hash, transactions, difficulty) ==
    Mine(NewBlock(index, prev_hash, transactions, difficulty, 2))

\* The blocks of a chain this node does not have, by index.
ForeignBlocks == [i \in 0..(MaxChain + 1) |-> PeerBlock(i, ForeignHash, <<>>, Difficulty)]

\* The blocks other nodes may send: the blocks of the foreign chain (behind the tail,
\* competing for the next index, beyond the next index), two blocks mined on the tail,
\* and two for the next index that were built at clock reading 3 and not mined: as
\* built, and with an altered hash.
InboundBlocks ==
    LET next == ExpectedIndex(blockchain)
        prev == ExpectedPrev(blockchain)
        plain == NewBlock(next, prev, <<T1>>, blockchain.difficulty, 3)
    IN  {ForeignBlocks[i] : i \in 0..(MaxChain + 1)}
        \cup {PeerBlock(next, prev, <<>>, blockchain.difficulty),
              PeerBlock(next, prev, <<T1s>>, blockchain.difficulty),
              plain, [plain EXCEPT !.hash = Repeat0(plain.difficulty) \o <<"h", "x">>]}

BasicValidationBeyond(b, expected_index, expected_prev) ==
    /\ b.index = expected_index + 1
    /\ b.prev_hash = expected_prev
    /\ b.hash = CalculateHash(b)
    /\ StartsWith(b.hash, Repeat0(b.difficulty))
\* is_valid: index, previous hash, integrity and proof of work.
BasicValidation(b, expected_index, expected_prev) ==
    /\ b.index = expected_index
    /\ b.prev_hash = expected_prev
    /\ b.hash = CalculateHash(b)
    /\ StartsWith(b.hash, Repeat0(b.difficulty))

\* A variant of the comparison that also takes a block at the tail's index for a newer one.
HigherOrEqualIndex(b, current_max_index) == b.index >= current_max_index

\* block.index > current_max_index
HigherIndex(b, current_max_index) == b.index > current_max_index

\* block.index == current_max_index && block.previous_hash != current_last_hash
Competing(b, current_max_index, current_last_hash) ==
    b.index = current_max_index /\ b.prev_hash # current_last_hash

IdleSyncs == {s \in Syncs : sync[s].pc = "idle"}

\* tokio::spawn(request_blockchain)
SpawnSync ==
    /\ IdleSyncs # {}
    /\ LET s == CHOOSE x \in IdleSyncs : \A y \in IdleSyncs : x <= y
       IN  sync' = [sync EXCEPT ![s].pc = "start"]

\* handle_connection, NewBlock b: the snapshot under the read lock and the validation.
HandleNewBlock(c, b) ==
    LET expected_index == ExpectedIndex(blockchain)
        expected_prev == ExpectedPrev(blockchain)
        current_max_index == CurrentIndex(blockchain)
        line(event) == [event |-> event, index |-> b.index, expected_index |-> expected_index,
                        purged |-> 0]
    IN  /\ conn[c].pc = "idle"
        /\ IF BasicValidation(b, expected_index, expected_prev)
           THEN /\ Len(blockchain.chain) < ChainCap
                /\ conn' = [conn EXCEPT ![c] = [pc |-> "append", block |-> b]]
                /\ UNCHANGED <<sync, log>>
           ELSE IF HigherIndex(b, current_max_index)
           THEN /\ SpawnSync
                /\ log' = line("fork_resolution")
                /\ UNCHANGED conn
           ELSE /\ log' = line(IF Competing(b, current_max_index, expected_prev)
                               THEN "competing" ELSE "rejected")
                /\ UNCHANGED <<conn, sync>>
        /\ UNCHANGED <<blockchain, tx_pool, miner, committed>>
        /\ UNCHANGED <<observed, sent, heard>>
        /\ UNCHANGED elsewhere

RecvNewBlock == \E b \in InboundBlocks : \E c \in Conns : HandleNewBlock(c, b)

\* A variant of the handler that trusts its snapshot and does not look at the chain again.
TrustSnapshot(bc, b) == TRUE

\* The double check after acquiring the write lock.
StillExtends(bc, b) == ExpectedIndex(bc) = b.index /\ ExpectedPrev(bc) = b.prev_hash

\* A variant of the clean-up that compares whole transactions instead of their hashes.
PurgePoolByValue(pool, b) == SelectSeq(pool, LAMBDA tx : tx \notin Range(b.transactions))

\* tx_pool.retain(|tx| !block_tx_hashes.contains(&tx.hash()))
PurgePool(pool, b) ==
    LET block_tx_hashes == {TxHash(tx) : tx \in Range(b.transactions)}
    IN  SelectSeq(pool, LAMBDA tx : TxHash(tx) \notin block_tx_hashes)

\* handle_connection, NewBlock: the append and the pool clean-up under the write lock.
ConnAppend(c) ==
    /\ conn[c].pc = "append"
    /\ IF StillExtends(blockchain, conn[c].block)
       THEN /\ blockchain' = [blockchain EXCEPT !.chain = Push(@, conn[c].block)]
            /\ committed' = Append(committed, conn[c].block)
            /\ tx_pool' = PurgePool(tx_pool, conn[c].block)
            /\ log' = [event |-> "added", index |-> conn[c].block.index,
                       expected_index |-> conn[c].block.index,
                       purged |-> Len(tx_pool) - Len(tx_pool')]
       ELSE /\ log' = [event |-> "chain_changed", index |-> conn[c].block.index,
                       expected_index |-> ExpectedIndex(blockchain), purged |-> 0]
            /\ UNCHANGED <<blockchain, committed, tx_pool>>
    /\ conn' = [conn EXCEPT ![c] = ConnIdle]
    /\ UNCHANGED <<miner, sync>>
    /\ UNCHANGED <<observed, sent, heard>>
    /\ UNCHANGED elsewhere

\* tx_pool.iter().any(|tx| tx.hash() == transaction.hash())
Exists(pool, transaction) == \E i \in 1..Len(pool) : TxHash(pool[i]) = TxHash(transaction)

HandleNewTransactionRelayed(c, transaction) ==
    /\ conn[c].pc = "idle"
    /\ IF ~Exists(tx_pool, transaction)
       THEN /\ InFlight < MaxPool
            /\ tx_pool' = Append(tx_pool, transaction)
            /\ sent' = Record(sent, [to |-> Peers[1], kind |-> "NewTransaction",
                                     block |-> NoBlock])
       ELSE UNCHANGED <<tx_pool, sent>>
    /\ UNCHANGED <<blockchain, miner, conn, sync, log, committed>>
    /\ UNCHANGED <<observed, heard>>
    /\ UNCHANGED elsewhere
\* handle_connection, NewTransaction.
HandleNewTransaction(c, transaction) ==
    /\ conn[c].pc = "idle"
    /\ IF ~Exists(tx_pool, transaction)
       THEN /\ InFlight < MaxPool
            /\ tx_pool' = Append(tx_pool, transaction)
       ELSE UNCHANGED tx_pool
    /\ UNCHANGED <<blockchain, miner, conn, sync, log, committed>>
    /\ UNCHANGED <<observed, sent, heard>>
    /\ UNCHANGED elsewhere

RecvNewTransaction == \E t \in InboundTxs : \E c \in Conns : HandleNewTransaction(c, t)

(* ------------------------ request_blockchain -------------------------- *)

RECURSIVE PeerChain(_)
\* The chain of a peer that mined n blocks from the same genesis block.
PeerChain(n) ==
    IF n = 0 THEN EmptyBlockchain(Difficulty)
    ELSE IF n = 1 THEN NewBlockchain(Difficulty, 1)
    ELSE AddBlock(PeerChain(n - 1), <<T1s>>, 2)

\* A chain whose last block was altered after mining.
Damaged(bc) == [bc EXCEPT !.chain[Len(bc.chain)].prev_hash = ForeignHash]

\* The chains a peer may answer RequestBlockchain with.
RemoteChains == {PeerChain(n) : n \in 0..MaxChain} \cup {Damaged(PeerChain(MaxChain))}

\* NetworkMessage::RequestBlockchain, written to the stream of peer p.
Request(p) == [to |-> p, kind |-> "RequestBlockchain", block |-> NoBlock]

\* request_blockchain: read the local length.
SyncStart(s) ==
    /\ sync[s].pc = "start"
    /\ sync' = [sync EXCEPT ![s].pc = "poll", ![s].peer = 1,
                            ![s].best_len = Len(blockchain.chain)]
    /\ heard' = [heard EXCEPT ![s] = {}]
    /\ UNCHANGED <<blockchain, tx_pool, miner, conn, log, committed>>
    /\ UNCHANGED <<observed, sent>>
    /\ UNCHANGED elsewhere

\* After a peer: the next one, or the end of the loop.
NextPeer(r) == IF r.peer = Len(Peers) THEN [r EXCEPT !.pc = "apply"] ELSE [r EXCEPT !.peer = r.peer + 1]

\* if validate_blockchain(&received_bc) { if received_len > best_len { ... } }
Received(r, received_bc) ==
    IF ValidateBlockchain(received_bc) /\ Len(received_bc.chain) > r.best_len
    THEN [r EXCEPT !.best_len = Len(received_bc.chain), !.has_best = TRUE, !.best_chain = received_bc]
    ELSE r

\* request_blockchain: one peer of the loop; what the network does is open.
SyncPoll(s) ==
    /\ sync[s].pc = "poll"
    /\ \/ \E outcome \in {"connect_failed", "read_failed", "decode_failed", "unexpected"} :
             /\ sync' = [sync EXCEPT ![s] = NextPeer(sync[s])]
             /\ sent' = IF outcome = "connect_failed" THEN sent
                        ELSE Record(sent, Request(Peers[sync[s].peer]))
             /\ UNCHANGED heard
       \/ \* stream.write_all(..).await? returns the error
          /\ sync' = [sync EXCEPT ![s].pc = "err"]
          /\ UNCHANGED <<sent, heard>>
       \/ \E received_bc \in RemoteChains :
             /\ sync' = [sync EXCEPT ![s] = NextPeer(Received(sync[s], received_bc))]
             /\ sent' = Record(sent, Request(Peers[sync[s].peer]))
             /\ heard' = [heard EXCEPT ![s] = Record(@, received_bc)]
    /\ UNCHANGED <<blockchain, tx_pool, miner, conn, log, committed>>
    /\ UNCHANGED observed
    /\ UNCHANGED elsewhere

\* request_blockchain: apply the best chain, if any.
SyncApply(s) ==
    /\ sync[s].pc = "apply"
    /\ IF sync[s].has_best
       THEN /\ blockchain' = sync[s].best_chain
            /\ committed' = <<>>
       ELSE UNCHANGED <<blockchain, committed>>
    /\ sync' = [sync EXCEPT ![s] = [SyncIdle EXCEPT !.pc = "ok"]]
    /\ UNCHANGED <<tx_pool, miner, conn, log>>
    /\ UNCHANGED <<observed, sent, heard>>
    /\ UNCHANGED elsewhere

Next ==
    \/ MinerCheckPool
    \/ MinerPushReward
    \/ MineSnapshot
    \/ MineDrain
    \/ MineCheck
    \/ MineCommit
    \/ MinerBroadcast
    \/ RecvNewBlock
    \/ \E c \in Conns : ConnAppend(c)
    \/ RecvNewTransaction
    \/ \E s \in Syncs : SyncStart(s)
    \/ \E s \in Syncs : SyncPoll(s)
    \/ \E s \in Syncs : SyncApply(s)

Spec == Init /\ [][Next]_vars

(* ------------------- request_blockchain on its own -------------------- *)

\* A chain of this node's own: the genesis block and a block it mined itself.
LocalFork == AddBlock(NewBlockchain(Difficulty, 1), <<SystemTx>>, 1)

\* The chains a node may hold when it calls request_blockchain: none yet (run_node starts
\* with Blockchain::empty), the genesis block, a fork of its own, the peers' chain, a
\* genesis block of its own (run_node creates one when the first sync brought nothing).
LocalChains == {EmptyBlockchain(Difficulty), NewBlockchain(Difficulty, 1), LocalFork,
                PeerChain(MaxChain), NewBlockchain(Difficulty, 2)}

\* One request_blockchain run is about to start; nothing else runs, and the histories
\* are kept.
InitSync ==
    /\ blockchain \in LocalChains
    /\ NodeAtRest
    /\ sync = [s \in Syncs |-> IF s = 1 THEN [SyncIdle EXCEPT !.pc = "start"] ELSE SyncIdle]
    /\ ElsewhereAtRest
    /\ observed = TRUE

NextSync ==
    \/ \E s \in Syncs : SyncStart(s)
    \/ \E s \in Syncs : SyncPoll(s)
    \/ \E s \in Syncs : SyncApply(s)

SpecSync == InitSync /\ [][NextSync]_vars

(* ----------------------------- properties ----------------------------- *)

\* The last block of the node's chain.
TailBlock == Last(blockchain.chain)

\* The number of positions of the chain that hold block b.
Occurrences(b) == Cardinality({i \in 1..Len(blockchain.chain) : blockchain.chain[i] = b})

(* C1: mining linearizability.  However mine_block runs and NewBlock        *)
(* handlers interleave, the chain holds every block committed since it was  *)
(* last replaced (every block mine_block returned and every block a handler *)
(* appended) exactly once, no block is committed twice, and the chain       *)
(* satisfies is_valid().                                                    *)
C1_MiningLinearizable ==
    /\ \A i \in 1..Len(committed) : Occurrences(committed[i]) = 1
    /\ \A i, j \in 1..Len(committed) : committed[i] = committed[j] => i = j
    /\ IsValid(blockchain)

\* mine_block and a handler raced for the same index: the miner's block was committed and
\* the handler, which had validated its block against the old tail, found the chain changed.
C1_Witness ==
    /\ Len(committed) = 1
    /\ committed[1].timestamp \in Clock
    /\ log.event = "chain_changed"
    /\ log.index = committed[1].index
    /\ miner.pc = "sleep"
    /\ \A c \in Conns : conn[c].pc = "idle"

(* C2: fork-choice monotonicity.  The replacement step of request_blockchain *)
(* never shortens the chain, and if it changes the chain, the new chain is   *)
(* strictly longer than the one it replaces and satisfies is_valid().        *)
C2_ForkChoiceMonotone ==
    [][\A s \in Syncs : SyncApply(s) =>
          /\ Len(blockchain'.chain) >= Len(blockchain.chain)
          /\ blockchain' # blockchain =>
                /\ Len(blockchain'.chain) > Len(blockchain.chain)
                /\ IsValid(blockchain')]_vars

(* C3: request_blockchain returns success and changes nothing when every    *)
(* peer fails, and a failure on one peer (connect, write of the request,    *)
(* read of the response, decode) only skips that peer: the loop goes on to  *)
(* the next peer or to the replacement step, and keeps a longer valid chain *)
(* it has already received.                                                 *)
C3_SyncFailureIsolated ==
    [][\A s \in Syncs :
          /\ SyncPoll(s) => /\ sync'[s].pc \in {"poll", "apply"}
                            /\ sync[s].has_best => sync'[s].has_best
          /\ SyncApply(s) => /\ sync'[s].pc = "ok"
                             /\ ~sync[s].has_best => blockchain' = blockchain]_vars

(* C4: mempool deduplication.  In every reachable state the pool holds at   *)
(* most one transaction per transaction hash.                               *)
C4_MempoolDeduplicated ==
    \A i, j \in 1..Len(tx_pool) : TxHash(tx_pool[i]) = TxHash(tx_pool[j]) => i = j

(* C5: every block mine_block commits has as its first transaction the      *)
(* coinbase transaction paying the miner address the reward 50, and holds   *)
(* only that transaction when the pool was empty.                           *)
C5_CoinbaseFirst ==
    miner.pc = "broadcast" =>
        LET txs == miner.new_block.transactions
        IN  /\ txs # <<>>
            /\ txs[1] = Coinbase(MinerAddress, 50)
            /\ miner.made_dummy => Len(txs) = 1

(* C6: mining abort.  When mine_block, after the proof of work, finds the   *)
(* tail at or past the intended index or the tail hash different from the   *)
(* candidate's previous hash, it gives up: it appends nothing, returns      *)
(* nothing, and puts back into the pool exactly the transactions it drained *)
(* (not the placeholder it created itself).                                 *)
C6_AbortRestoresDrained ==
    [][/\ (MineCheck \/ MineCommit) /\ ~CanCommit(blockchain, miner.new_block)
            => miner'.pc # "broadcast" /\ blockchain' = blockchain
       /\ miner.pc \in {"check", "commit"} /\ miner'.pc = "sleep"
            => /\ blockchain' = blockchain
               /\ committed' = committed
               /\ tx_pool' = tx_pool \o (IF miner.made_dummy THEN <<>>
                                         ELSE miner.new_block.transactions)]_vars

\* What every step of a NewBlock handler leaves alone: the miner and the commit history,
\* and every request_blockchain run that is not idle.  Steps that do not satisfy it are
\* no handler steps, whatever the inbound block.
HandlerFrame ==
    /\ miner' = miner
    /\ committed' = committed
    /\ \A s \in Syncs : sync'[s] = sync[s] \/ sync[s].pc = "idle"

(* C7: a NewBlock for the index after the tail whose previous hash is not   *)
(* the tail's hash (a competing fork block) leaves the chain and the pool   *)
(* unchanged and starts no request_blockchain; it is only logged.           *)
C7_CompetingForkIgnored ==
    [][HandlerFrame => \A b \in InboundBlocks : \A c \in Conns :
          (/\ blockchain.chain # <<>>
           /\ b.index = TailBlock.index + 1
           /\ b.prev_hash # TailBlock.hash
           /\ HandleNewBlock(c, b))
          => /\ blockchain' = blockchain
             /\ tx_pool' = tx_pool
             /\ conn' = conn
             /\ sync' = sync]_vars

(* C8: a NewBlock whose index is beyond the index after the tail (a gap) is *)
(* not appended and starts a request_blockchain, and handling a NewBlock    *)
(* starts a request_blockchain only in that case.                           *)
C8_SyncOnlyOnGap ==
    [][HandlerFrame => \A b \in InboundBlocks : \A c \in Conns :
          (blockchain.chain # <<>> /\ HandleNewBlock(c, b))
          => /\ b.index > TailBlock.index + 1
                  => blockchain' = blockchain /\ conn' = conn /\ sync' # sync
             /\ sync' # sync => b.index > TailBlock.index + 1]_vars

\* b.index == tail.index + 1 and b.prev_hash == tail.hash
ExtendsTail(b) ==
    /\ blockchain.chain # <<>>
    /\ b.index = TailBlock.index + 1
    /\ b.prev_hash = TailBlock.hash

\* The positions of the pool whose transaction hash is the hash of no transaction of b.
KeptPositions(b) ==
    {i \in 1..Len(tx_pool) :
        \A k \in 1..Len(b.transactions) : TxHash(tx_pool[i]) # TxHash(b.transactions[k])}

(* C9: a NewBlock b that extends the tail and has a valid proof of work is  *)
(* taken for the append, and when b still extends the tail under the write  *)
(* lock it becomes the new tail and the pool loses exactly the entries      *)
(* whose hash is the hash of a transaction of b: the other entries stay, in *)
(* their order.  If the tail has moved meanwhile, nothing changes.          *)
C9_ExtendingBlockAppended ==
    [][/\ HandlerFrame => \A b \in InboundBlocks : \A c \in Conns :
             (ExtendsTail(b) /\ HandleNewBlock(c, b) /\ IsValidPow(b))
             => conn'[c] = [pc |-> "append", block |-> b]
       /\ \A c \in Conns :
             /\ (ConnAppend(c) /\ ExtendsTail(conn[c].block))
                   => LET b == conn[c].block
                          kept == KeptPositions(b)
                      IN  /\ blockchain'.chain = Append(blockchain.chain, b)
                          /\ Len(tx_pool') = Cardinality(kept)
                          /\ \A i \in kept :
                                tx_pool'[Cardinality({j \in kept : j <= i})] = tx_pool[i]
             /\ (ConnAppend(c) /\ ~ExtendsTail(conn[c].block))
                   => blockchain' = blockchain /\ tx_pool' = tx_pool]_vars

\* A handler has appended a block holding the signed transfer: the pool lost one entry
\* (the unsigned transfer) and still holds the reward transaction.
C9_Witness ==
    /\ log.event = "added"
    /\ log.purged = 1
    /\ TailBlock.transactions = <<T1s>>
    /\ tx_pool = <<RewardTx>>
    /\ committed # <<>>
    /\ Last(committed) = TailBlock

(* C10: a NewBlock whose index is at most the tail's index (a stale block)  *)
(* leaves the chain and the pool unchanged and starts no                    *)
(* request_blockchain.                                                      *)
C10_StaleBlockIgnored ==
    [][HandlerFrame => \A b \in InboundBlocks : \A c \in Conns :
          (/\ blockchain.chain # <<>>
           /\ b.index <= TailBlock.index
           /\ HandleNewBlock(c, b))
          => /\ blockchain' = blockchain
             /\ tx_pool' = tx_pool
             /\ conn' = conn
             /\ sync' = sync]_vars

\* A block for an index the chain already has was handled and rejected.
C10_Witness ==
    /\ blockchain.chain # <<>>
    /\ log.event \in {"rejected", "competing"}
    /\ log.index <= TailBlock.index
    /\ log.index < log.expected_index

\* The chains among those a run has received that satisfy is_valid() and are strictly
\* longer than the local chain.
Qualifying(s) ==
    {c \in heard[s] : IsValid(c) /\ Len(c.chain) > Len(blockchain.chain)}

(* C11: fork-choice selection.  When a request_blockchain run ends and the  *)
(* local chain has not changed meanwhile, the chain is a longest one among  *)
(* the chains the peers answered with that satisfy is_valid() and are       *)
(* strictly longer than the local chain; if no answer qualifies (invalid,   *)
(* or not longer), the chain is left untouched.                             *)
C11_LongestValidAdopted ==
    [][\A s \in Syncs :
          (SyncApply(s) \/ (SyncPoll(s) /\ sync'[s].pc = "err"))
          => IF Qualifying(s) = {}
             THEN blockchain' = blockchain
             ELSE /\ blockchain' \in Qualifying(s)
                  /\ \A c \in Qualifying(s) : Len(c.chain) <= Len(blockchain'.chain)]_vars

(* ------------------- the seed node and the start-up -------------------- *)

\* Another node's listen address, and an address text longer than 16 MiB.
OtherAddr == <<"127.0.0.1:8081">>
HugeAddr == <<"huge">>

\* The largest frame length the specification allows: 16 MiB.
FrameCeiling == 16 * 1024 * 1024

\* The number of bytes of an address text.
AddrBytes(address) == IF address = HugeAddr THEN FrameCeiling + 1 ELSE 14

\* Message, as far as the seed tells the variants apart.
Register(address) == [kind |-> "Register", addr |-> address]
GetPeers == [kind |-> "GetPeers", addr |-> <<>>]
OtherMessage == [kind |-> "NewTransaction", addr |-> <<>>]
Undecodable == [kind |-> "undecodable", addr |-> <<>>]

\* bincode::serialize(msg).len(): four bytes of variant, and for a String eight bytes of
\* length and the text.
EncodedLen(msg) == IF msg.kind = "Register" THEN 4 + 8 + AddrBytes(msg.addr) ELSE 4

\* A frame on the wire: the four-byte big-endian length, then the payload.
Frame(msg) == [len |-> EncodedLen(msg), msg |-> msg]

SeedFrames ==
    {Frame(Register(address)) : address \in {ListenAddr, OtherAddr, HugeAddr}}
        \cup {Frame(GetPeers), Frame(OtherMessage), Frame(Undecodable)}

PeerListsButOne(registry) ==
    {list \in UNION {[1..n -> registry] : n \in 0..Cardinality(registry)} :
        /\ Len(list) + 1 >= Cardinality(registry)
        /\ Len(list) < Cardinality(registry) \/ registry = {}
        /\ \A i, j \in 1..Len(list) : list[i] = list[j] => i = j}
\* peers.iter().cloned().collect() of a HashSet: every element once, in any order.
PeerLists(registry) ==
    {list \in [1..Cardinality(registry) -> registry] : Range(list) = registry}

InsertAlone(registry, address) == {address}
\* HashSet::insert
Insert(registry, address) == registry \cup {address}

\* handle_seed_connection, for one frame a client sent.
SeedHandle(frame) ==
    /\ \/ /\ frame.msg.kind = "Register"
          /\ seed_peers' = Insert(seed_peers, frame.msg.addr)
          /\ UNCHANGED seed_reply
       \/ /\ frame.msg.kind = "GetPeers"
          /\ \E list \in PeerLists(seed_peers) :
                seed_reply' = [kind |-> "Peers", list |-> list]
          /\ UNCHANGED seed_peers
       \/ /\ frame.msg.kind \notin {"Register", "GetPeers"}
          /\ UNCHANGED <<seed_peers, seed_reply>>
    /\ UNCHANGED <<boot, ret>>
    /\ UNCHANGED <<blockchain, tx_pool, miner, conn, sync, log, committed>>
    /\ UNCHANGED <<observed, sent, heard>>
    /\ UNCHANGED beyond

RegisterFirst == <<"register_with_seed", "get_peers_from_seed", "sync">>
\* The calls of run_node's start-up, in the order of the code.
StartupOrder == <<"get_peers_from_seed", "register_with_seed", "sync">>

\* The position in run_node after a call has returned.
After(call) ==
    LET i == CHOOSE k \in 1..Len(StartupOrder) : StartupOrder[k] = call
    IN  IF i < Len(StartupOrder) THEN StartupOrder[i + 1] ELSE "run"

\* The --peer argument: none, another node's address, the node's own address.
PeerArgs == {<<>>, <<OtherAddr>>, <<ListenAddr>>}

\* run_node: for p in discovered { if p != addr && !peers.contains(&p) { peers.push(p) } }
RECURSIVE Discover(_, _, _)
Discover(peers, list, address) ==
    IF list = <<>> THEN peers
    ELSE Discover(IF Head(list) # address /\ Head(list) \notin Range(peers)
                  THEN Append(peers, Head(list)) ELSE peers,
                  Tail(list), address)

\* run_node: get_peers_from_seed and the merge of its answer; an error is only printed.
BootGetPeers ==
    /\ boot.seed
    /\ boot.pc = "get_peers_from_seed"
    /\ \/ \E list \in PeerLists(seed_peers) :
            /\ seed_reply' = [kind |-> "Peers", list |-> list]
            /\ boot' = [boot EXCEPT !.pc = After(@), !.asked = TRUE,
                                    !.peers = Discover(@, list, boot.addr)]
       \/ /\ boot' = [boot EXCEPT !.pc = After(@), !.asked = TRUE]
          /\ UNCHANGED seed_reply
    /\ UNCHANGED <<seed_peers, ret>>
    /\ UNCHANGED <<blockchain, tx_pool, miner, conn, sync, log, committed>>
    /\ UNCHANGED <<observed, sent, heard>>
    /\ UNCHANGED beyond

\* run_node: register_with_seed; an error is only printed.
BootRegister ==
    /\ boot.seed
    /\ boot.pc = "register_with_seed"
    /\ \/ seed_peers' = Insert(seed_peers, boot.addr)
       \/ UNCHANGED seed_peers
    /\ boot' = [boot EXCEPT !.pc = After(@), !.registered = TRUE]
    /\ UNCHANGED <<seed_reply, ret>>
    /\ UNCHANGED <<blockchain, tx_pool, miner, conn, sync, log, committed>>
    /\ UNCHANGED <<observed, sent, heard>>
    /\ UNCHANGED beyond

\* run_node without --seed: neither call is made.
BootSkipSeed ==
    /\ ~boot.seed
    /\ boot.pc \in {"get_peers_from_seed", "register_with_seed"}
    /\ boot' = [boot EXCEPT !.pc = After(@)]
    /\ UNCHANGED <<seed_peers, seed_reply, ret>>
    /\ UNCHANGED <<blockchain, tx_pool, miner, conn, sync, log, committed>>
    /\ UNCHANGED <<observed, sent, heard>>
    /\ UNCHANGED beyond

\* run_node: the point where sync() is called, when there is a peer to ask.
BootSync ==
    /\ boot.pc = "sync"
    /\ boot' = [boot EXCEPT !.pc = After(@), !.synced = (boot.peers # <<>>)]
    /\ UNCHANGED <<seed_peers, seed_reply, ret>>
    /\ UNCHANGED <<blockchain, tx_pool, miner, conn, sync, log, committed>>
    /\ UNCHANGED <<observed, sent, heard>>
    /\ UNCHANGED beyond

\* A seed just started, and a node command about to run its start-up.
InitSeed ==
    /\ blockchain = EmptyBlockchain(Difficulty)
    /\ NodeAtRest
    /\ sync = [s \in Syncs |-> SyncIdle]
    /\ observed = FALSE
    /\ seed_peers = {}
    /\ seed_reply = NoReply
    /\ ret = "none"
    /\ \E seed \in BOOLEAN, peer \in PeerArgs :
          boot = [pc |-> StartupOrder[1], addr |-> ListenAddr, seed |-> seed,
                  peers |-> peer, asked |-> FALSE, registered |-> FALSE,
                  synced |-> FALSE, chain_len |-> 0, mine |-> TRUE]
    /\ BeyondAtRest

NextSeed ==
    \/ \E frame \in SeedFrames : SeedHandle(frame)
    \/ BootGetPeers
    \/ BootRegister
    \/ BootSkipSeed
    \/ BootSync

SpecSeed == InitSeed /\ [][NextSeed]_vars

(* C12: a frame whose declared length exceeds the 16 MiB ceiling is         *)
(* rejected: its payload is not decoded and it has no effect on the state   *)
(* of the receiver (here the seed: its registry and its replies).           *)
C12_OversizedFrameRejected ==
    [][\A frame \in SeedFrames :
          (frame.len > FrameCeiling /\ SeedHandle(frame))
          => /\ seed_peers' = seed_peers
             /\ seed_reply' = seed_reply]_vars

\* The earlier chain is an initial part of the later chain.
IsPrefix(earlier, later) ==
    /\ Len(earlier) <= Len(later)
    /\ SubSeq(later, 1, Len(earlier)) = earlier

\* A request_blockchain run puts the chain it selected in the place of the local chain.
SyncReplaces == \E s \in Syncs : SyncApply(s) /\ sync[s].has_best

(* C13 as stated: within one node the chain only ever grows at its end: of  *)
(* any two observations of the chain, the earlier one is a prefix of the    *)
(* later one.                                                               *)
C13_AppendOnly ==
    [][IsPrefix(blockchain.chain, blockchain'.chain)]_vars

(* C13, amended: every step of a node other than the replacement of the     *)
(* chain by a request_blockchain run (mine_block's commit, the NewBlock     *)
(* handler's append, and every step that does not write the chain) leaves   *)
(* the earlier chain a prefix of the later one.                             *)
C13_AppendOnlyExceptSync ==
    [][~SyncReplaces => IsPrefix(blockchain.chain, blockchain'.chain)]_vars

\* The NewBlock handler has appended a block to the chain the node started with.
C13_Witness ==
    /\ log.event = "added"
    /\ Len(blockchain.chain) > Len(NewBlockchain(Difficulty, 1).chain)
    /\ IsPrefix(NewBlockchain(Difficulty, 1).chain, blockchain.chain)

(* -------------------- the chain library on its own --------------------- *)

\* The difficulties and the clock readings of the calls made on a chain.
ChainDifficulties == {0, 1, 2}
ChainClock == {1, 2}

\* The transaction lists handed to add_block.
ChainTxs == {<<>>, <<T1>>}

\* The blocks handed to add_mined_block: a mined successor of the tail, blocks with
\* another index or another previous hash, blocks that were never mined, a block whose
\* stored hash was altered, and a block of another difficulty.
Candidates(bc) ==
    LET next == IF bc.chain = <<>> THEN 0 ELSE Last(bc.chain).index + 1
        prev == IF bc.chain = <<>> THEN <<"0">> ELSE Last(bc.chain).hash
        mined == {Mine(NewBlock(i, p, <<T1>>, bc.difficulty, 1)) :
                     i \in {next, next + 1, 0}, p \in {prev, <<"0">>, <<"f">>}}
        raw == {NewBlock(next, prev, <<T1>>, bc.difficulty, ts) : ts \in {1, 3}}
        good == Mine(NewBlock(next, prev, <<T1>>, bc.difficulty, 1))
    IN  mined \cup raw \cup {[good EXCEPT !.hash = <<"0", "0", "0", "h", "f">>],
                             Mine(NewBlock(next, prev, <<>>, 0, 2))}

\* A call of add_block.
CallAddBlock(transactions, ts) ==
    /\ Len(blockchain.chain) < MaxChain
    /\ blockchain' = AddBlock(blockchain, transactions, ts)
    /\ ret' = "block"
    /\ UNCHANGED <<seed_peers, seed_reply, boot>>
    /\ UNCHANGED <<tx_pool, miner, conn, sync, log, committed>>
    /\ UNCHANGED <<observed, sent, heard>>
    /\ UNCHANGED beyond

\* A call of add_mined_block.
CallAddMinedBlock(block) ==
    /\ Len(AddMinedBlock(blockchain, block).bc.chain) <= MaxChain
    /\ blockchain' = AddMinedBlock(blockchain, block).bc
    /\ ret' = IF AddMinedBlock(blockchain, block).ok THEN "true" ELSE "false"
    /\ UNCHANGED <<seed_peers, seed_reply, boot>>
    /\ UNCHANGED <<tx_pool, miner, conn, sync, log, committed>>
    /\ UNCHANGED <<observed, sent, heard>>
    /\ UNCHANGED beyond

\* A chain just made by Blockchain::new or Blockchain::empty.
InitChain ==
    /\ blockchain \in {NewBlockchain(d, ts) : d \in ChainDifficulties, ts \in ChainClock}
                        \cup {EmptyBlockchain(d) : d \in ChainDifficulties}
    /\ ret = "none"
    /\ NodeAtRest
    /\ sync = [s \in Syncs |-> SyncIdle]
    /\ observed = FALSE
    /\ seed_peers = {}
    /\ seed_reply = NoReply
    /\ boot = BootDone
    /\ BeyondAtRest

NextChain ==
    \/ \E transactions \in ChainTxs, ts \in ChainClock : CallAddBlock(transactions, ts)
    \/ \E block \in Candidates(blockchain) : CallAddMinedBlock(block)

SpecChain == InitChain /\ [][NextChain]_vars

(* C14 as stated: a chain made by Blockchain::new(d) or Blockchain::empty(d) *)
(* and any finite sequence of add_block calls satisfies is_valid(): it is    *)
(* not empty, its first block has index 0, indices rise by one, every        *)
(* prev_hash is the predecessor's hash, and every stored hash recomputes     *)
(* and has the leading zeros of its difficulty.                              *)
C14_BuiltChainValid == IsValid(blockchain)

(* C14, amended: a chain made by Blockchain::new(d), or by                   *)
(* Blockchain::empty(d) and at least one call that added a block, satisfies  *)
(* is_valid(); the chain Blockchain::empty(d) returns does not, until its    *)
(* first block is added.                                                     *)
C14_BuiltChainValidOnceNonEmpty ==
    blockchain.chain # <<>> => IsValid(blockchain)

\* add_block has filled a chain made by Blockchain::empty up to the bound (no block
\* handed to add_mined_block carries a transaction and the clock reading 2).
C14_Witness ==
    /\ ret = "block"
    /\ Len(blockchain.chain) = MaxChain
    /\ blockchain.chain[1].timestamp = 2
    /\ blockchain.chain[1].transactions = <<T1>>

(* C15: add_mined_block(b) returns true and appends exactly b if and only   *)
(* if b.index is the tail's index plus one (0 on an empty chain),           *)
(* b.prev_hash is the tail's hash ("0" on an empty chain) and b passes      *)
(* is_valid_pow (its hash recomputes and starts with as many zeros as its   *)
(* difficulty); otherwise it returns false and leaves the chain unchanged.  *)
(* A chain that satisfies is_valid() satisfies it afterwards.               *)
C15_AddMinedBlockExact ==
    [][\A block \in Candidates(blockchain) :
          CallAddMinedBlock(block)
          => LET fits == /\ block.index = IF blockchain.chain = <<>> THEN 0
                                          ELSE blockchain.chain[Len(blockchain.chain)].index + 1
                         /\ block.prev_hash = IF blockchain.chain = <<>> THEN <<"0">>
                                              ELSE blockchain.chain[Len(blockchain.chain)].hash
                         /\ block.hash = CalculateHash(block)
                         /\ StartsWith(block.hash, Repeat0(block.difficulty))
             IN  /\ fits => /\ ret' = "true"
                            /\ blockchain' = [blockchain EXCEPT !.chain = Append(@, block)]
                 /\ ~fits => /\ ret' = "false"
                             /\ blockchain' = blockchain
                 /\ IsValid(blockchain) => IsValid(blockchain')]_vars

\* add_mined_block has accepted a block on a chain that held blocks already.
C15_Witness ==
    /\ ret = "true"
    /\ Len(blockchain.chain) > 1
    /\ IsValid(blockchain)

(* C16: the peer set a node runs with never contains the node's own listen  *)
(* address, whichever --peer argument and seed-discovered addresses it was  *)
(* given.                                                                   *)
C16_OwnAddressNeverPeer ==
    boot.pc \in {"sync", "run"} => boot.addr \notin Range(boot.peers)

(* C17: with a seed, run_node first calls get_peers_from_seed and merges    *)
(* the answer without its own address, then calls register_with_seed, and   *)
(* only then sync(); so the answer to its first GetPeers is computed before *)
(* it has registered in this run.                                           *)
C17_StartupOrder ==
    [][/\ (boot'.asked /\ ~boot.asked)
            => /\ ~boot.registered
               /\ ~boot.synced
               /\ boot.addr \notin Range(boot'.peers) \ Range(boot.peers)
       /\ (boot'.registered /\ ~boot.registered)
            => /\ boot.asked
               /\ ~boot.synced
       /\ (boot'.synced /\ ~boot.synced /\ boot.seed)
            => /\ boot.asked
               /\ boot.registered]_vars

\* A start-up with a seed has discovered another node, registered and reached sync().
C17_Witness ==
    /\ boot.seed
    /\ boot.synced
    /\ boot.registered
    /\ boot.addr \in seed_peers
    /\ OtherAddr \in Range(boot.peers)

(* C18: when the seed receives Register(addr) it inserts addr into its      *)
(* registry and writes no response; registering an address already present  *)
(* leaves the registry as it is; the registry never loses an address.       *)
C18_RegisterInserts ==
    [][/\ \A frame \in SeedFrames :
             (frame.msg.kind = "Register" /\ SeedHandle(frame))
             => /\ seed_peers' = seed_peers \cup {frame.msg.addr}
                /\ frame.msg.addr \in seed_peers => seed_peers' = seed_peers
                /\ seed_reply' = seed_reply
       /\ seed_peers \subseteq seed_peers']_vars

\* Two addresses have been registered and the seed has written no response.
C18_Witness ==
    /\ {ListenAddr, OtherAddr} \subseteq seed_peers
    /\ seed_reply = NoReply

(* C19: when the seed receives GetPeers it answers Peers(list), where list  *)
(* holds exactly the addresses registered at that moment, each once (the    *)
(* requester's own address too, if it was registered before), and the       *)
(* registry is left unchanged.                                              *)
C19_GetPeersSnapshot ==
    [][\A frame \in SeedFrames :
          (frame.msg.kind = "GetPeers" /\ SeedHandle(frame))
          => /\ seed_reply'.kind = "Peers"
             /\ Range(seed_reply'.list) = seed_peers
             /\ Len(seed_reply'.list) = Cardinality(seed_peers)
             /\ seed_peers' = seed_peers]_vars

\* The seed has answered a node that registered before with a list that names it.
C19_Witness ==
    /\ seed_reply.kind = "Peers"
    /\ boot.registered
    /\ boot.addr \in Range(seed_reply.list)
    /\ Len(seed_reply.list) > 1

(* ------------- mining and transactions, with what is sent -------------- *)

\* A node just constructed, with the history of the messages it sends kept.
InitGossip ==
    /\ blockchain = NewBlockchain(Difficulty, 1)
    /\ NodeAtRest
    /\ sync = [s \in Syncs |-> SyncIdle]
    /\ ElsewhereAtRest
    /\ observed = TRUE

\* The mining task, and the connections that bring transactions.
NextGossip ==
    \/ MinerCheckPool
    \/ MinerPushReward
    \/ MineSnapshot
    \/ MineDrain
    \/ MineCheck
    \/ MineCommit
    \/ MinerBroadcast
    \/ RecvNewTransaction

SpecGossip == InitGossip /\ [][NextGossip]_vars

(* C20: on an inbound NewTransaction(t) the handler only appends t to the   *)
(* pool unless a transaction of the same hash is there already: it sends    *)
(* no message to any peer and leaves the chain unchanged.                   *)
C20_TransactionNotRelayed ==
    [][\A c \in Conns : \A t \in InboundTxs :
          HandleNewTransaction(c, t)
          => /\ sent' = sent
             /\ blockchain' = blockchain
             /\ tx_pool' = IF \E i \in 1..Len(tx_pool) : TxHash(tx_pool[i]) = TxHash(t)
                           THEN tx_pool
                           ELSE Append(tx_pool, t)]_vars

\* A transaction has arrived at a node that has broadcast a block, and nothing but
\* blocks has been sent.
C20_Witness ==
    /\ observed
    /\ T1 \in Range(tx_pool)
    /\ sent # {}
    /\ \A m \in sent : m.kind = "NewBlock"

(* ------------------------- respond_blockchain -------------------------- *)

CloneTail(bc) == [bc EXCEPT !.chain = <<bc.chain[Len(bc.chain)]>>]
\* self.blockchain.read().unwrap().clone()
Clone(bc) == bc

\* handle_connection, RequestBlockchain: respond_blockchain clones the chain under the
\* read lock.
RespondSnapshot(c) ==
    /\ conn[c].pc = "idle"
    /\ serve[c].pc = "idle"
    /\ serve' = [serve EXCEPT ![c] = [pc |-> "write", clone |-> Clone(blockchain),
                                      frames |-> <<>>]]
    /\ UNCHANGED <<blockchain, tx_pool, miner, conn, sync, log, committed>>
    /\ UNCHANGED <<observed, sent, heard>>
    /\ UNCHANGED <<seed_peers, seed_reply, boot, ret, bcast, peer_node, tasks>>

\* respond_blockchain: the length prefix and the encoded ResponseBlockchain are written
\* to the stream the request came on; a write error ends the call (and is dropped by
\* the handler).
RespondWrite(c) ==
    /\ serve[c].pc = "write"
    /\ \E written \in BOOLEAN :
          serve' = [serve EXCEPT ![c] = [pc |-> "idle", clone |-> NoChain,
                                         frames |-> IF written THEN <<serve[c].clone>>
                                                    ELSE <<>>]]
    /\ UNCHANGED <<blockchain, tx_pool, miner, conn, sync, log, committed>>
    /\ UNCHANGED <<observed, sent, heard>>
    /\ UNCHANGED <<seed_peers, seed_reply, boot, ret, bcast, peer_node, tasks>>

\* A node that mines and answers requests for its chain.
NextServe ==
    \/ MinerCheckPool
    \/ MinerPushReward
    \/ MineSnapshot
    \/ MineDrain
    \/ MineCheck
    \/ MineCommit
    \/ MinerBroadcast
    \/ \E c \in Conns : RespondSnapshot(c)
    \/ \E c \in Conns : RespondWrite(c)

SpecServe == Init /\ [][NextServe]_vars

(* C21: handling an inbound request for the chain answers on the same       *)
(* connection with one frame that carries the node's complete chain as it   *)
(* was at one instant (the instant of the clone), and changes neither the   *)
(* chain nor the pool.                                                      *)
C21_ResponseIsSnapshot ==
    [][\A c \in Conns :
          /\ RespondSnapshot(c)
                => /\ serve'[c].clone = blockchain
                   /\ blockchain' = blockchain /\ tx_pool' = tx_pool
          /\ (RespondWrite(c) /\ serve'[c].frames # <<>>)
                => /\ serve'[c].frames = <<serve[c].clone>>
                   /\ blockchain' = blockchain /\ tx_pool' = tx_pool]_vars

\* A response has been written that carries the whole chain of the moment of the clone,
\* while the chain has grown since.
C21_Witness ==
    \E c \in Conns :
        /\ serve[c].frames # <<>>
        /\ Len(serve[c].frames[1].chain) < Len(blockchain.chain)
        /\ IsPrefix(serve[c].frames[1].chain, blockchain.chain)

(* ---------------- broadcast_new_block, peer by peer -------------------- *)

\* What one pass of the loop over the peers may meet.
Outcomes == {"written", "connect_failed", "write_failed"}

StopOnFailure(peer, outcome) == IF outcome = "written" THEN peer + 1 ELSE Len(Peers) + 1
\* for peer in &self.peers: a failed connect is printed, a failed write is dropped, and
\* the loop goes on with the next peer.
NextAttempt(peer, outcome) == peer + 1

\* broadcast_new_block (called by start_mining with the block mine_block returned) or
\* broadcast_new_transaction is entered: the message is encoded.
BroadcastStart(kind) ==
    /\ bcast.pc = "idle"
    /\ kind = "NewBlock" => miner.pc = "broadcast"
    /\ bcast' = [pc |-> "peers", kind |-> kind, peer |-> 1, attempts |-> <<>>]
    /\ UNCHANGED <<blockchain, tx_pool, miner, conn, sync, log, committed>>
    /\ UNCHANGED <<observed, sent, heard>>
    /\ UNCHANGED <<seed_peers, seed_reply, boot, ret, serve, peer_node, tasks>>

\* One pass of the loop: connect to the peer and write the frame.
BroadcastAttempt ==
    /\ bcast.pc = "peers"
    /\ bcast.peer <= Len(Peers)
    /\ \E outcome \in Outcomes :
          bcast' = [bcast EXCEPT
                      !.attempts = Append(@, [peer |-> Peers[bcast.peer], outcome |-> outcome]),
                      !.peer = NextAttempt(@, outcome),
                      !.pc = IF NextAttempt(bcast.peer, outcome) > Len(Peers)
                             THEN "done" ELSE "peers"]
    /\ UNCHANGED <<blockchain, tx_pool, miner, conn, sync, log, committed>>
    /\ UNCHANGED <<observed, sent, heard>>
    /\ UNCHANGED <<seed_peers, seed_reply, boot, ret, serve, peer_node, tasks>>

\* The call returns (it has no error to return); start_mining goes back to sleep.
BroadcastReturn ==
    /\ bcast.pc = "done"
    /\ bcast' = NoBcast
    /\ miner' = IF bcast.kind = "NewBlock" THEN MinerIdle ELSE miner
    /\ UNCHANGED <<blockchain, tx_pool, conn, sync, log, committed>>
    /\ UNCHANGED <<observed, sent, heard>>
    /\ UNCHANGED <<seed_peers, seed_reply, boot, ret, serve, peer_node, tasks>>

\* A node that mines, with its broadcasts seen peer by peer, and calls of
\* broadcast_new_transaction.
NextBroadcast ==
    \/ MinerCheckPool
    \/ MinerPushReward
    \/ MineSnapshot
    \/ MineDrain
    \/ MineCheck
    \/ MineCommit
    \/ \E kind \in {"NewBlock", "NewTransaction"} : BroadcastStart(kind)
    \/ BroadcastAttempt
    \/ BroadcastReturn

SpecBroadcast == Init /\ [][NextBroadcast]_vars

(* C22: a broadcast of a block or of a transaction attempts delivery to     *)
(* every known peer: a connect or write failure for one peer does not keep  *)
(* the call from attempting every later peer of the list, and the call      *)
(* completes without error.                                                 *)
C22_BroadcastReachesEveryPeer ==
    /\ bcast.pc = "done" => [i \in 1..Len(bcast.attempts) |-> bcast.attempts[i].peer] = Peers
    /\ bcast.pc \in {"idle", "peers", "done"}
    /\ bcast.pc = "peers" => bcast.peer <= Len(Peers)

\* A broadcast of a block has ended after a failure at the first peer.
C22_Witness ==
    /\ bcast.pc = "done"
    /\ bcast.kind = "NewBlock"
    /\ bcast.attempts[1].outcome # "written"
    /\ bcast.attempts[Len(Peers)].peer = Peers[Len(Peers)]

(* --------------------------- two nodes --------------------------------- *)

\* The other node, A, runs the same code: its mine_block commits a block on its chain
\* (nothing at A changes the chain meanwhile) and its broadcast_new_block writes the
\* block to this node over a working connection.
PeerCommit ==
    /\ Len(peer_node.chain) < ChainCap
    /\ peer_node.wire = <<>>
    /\ LET bc == [chain |-> peer_node.chain, difficulty |-> Difficulty]
           b == PeerBlock(ExpectedIndex(bc), ExpectedPrev(bc), TransactionsToMine(<<>>),
                          Difficulty)
       IN  peer_node' = [chain |-> Push(peer_node.chain, b), wire |-> <<b>>,
                         agreed |-> (blockchain.chain = peer_node.chain)]
    /\ UNCHANGED <<blockchain, tx_pool, miner, conn, sync, log, committed>>
    /\ UNCHANGED <<observed, sent, heard>>
    /\ UNCHANGED <<seed_peers, seed_reply, boot, ret, serve, bcast, tasks>>

\* A handle_connection task of this node reads the frame A wrote.  (The frame stays
\* readable: a second reading is the same block arriving on another connection.)
PeerDeliver ==
    /\ peer_node.wire # <<>>
    /\ \E c \in Conns : HandleNewBlock(c, peer_node.wire[1])

\* This node, B, has the chain A has; B was started with or without --mine.
InitPair ==
    /\ blockchain = NewBlockchain(Difficulty, 1)
    /\ NodeAtRest
    /\ sync = [s \in Syncs |-> SyncIdle]
    /\ observed = FALSE
    /\ seed_peers = {}
    /\ seed_reply = NoReply
    /\ ret = "none"
    /\ \E mine \in BOOLEAN : boot = [BootDone EXCEPT !.mine = mine]
    /\ serve = [c \in Conns |-> NoServe]
    /\ bcast = NoBcast
    /\ tasks = NoTasks
    /\ peer_node = [chain |-> blockchain.chain, wire |-> <<>>, agreed |-> FALSE]

NextPair ==
    \/ boot.mine /\ MinerCheckPool
    \/ boot.mine /\ MinerPushReward
    \/ boot.mine /\ MineSnapshot
    \/ boot.mine /\ MineDrain
    \/ boot.mine /\ MineCheck
    \/ boot.mine /\ MineCommit
    \/ boot.mine /\ MinerBroadcast
    \/ PeerCommit
    \/ PeerDeliver
    \/ \E c \in Conns : ConnAppend(c)

\* tokio runs every spawned handle_connection task until it returns, and a frame written
\* to a working connection is read.
SpecPairFair ==
    /\ InitPair
    /\ [][NextPair]_vars
    /\ WF_vars(PeerDeliver)
    /\ WF_vars(\E c \in Conns : ConnAppend(c))

\* B's chain is as long as A's and ends with the same block.
Converged ==
    /\ Len(blockchain.chain) = Len(peer_node.chain)
    /\ blockchain.chain[Len(blockchain.chain)] = peer_node.chain[Len(peer_node.chain)]

(* C23: if B's chain equals A's chain, B has no other source of blocks      *)
(* (its only peer is A and it was started without --mine, so it commits no  *)
(* block of its own), and A commits a block and broadcasts it to B over a   *)
(* working connection, then eventually B's chain is as long as A's and has  *)
(* the same tail block.                                                     *)
C23_GossipConverges ==
    (peer_node.agreed /\ peer_node.wire # <<>> /\ ~boot.mine) ~> Converged

\* B, not mining, has appended the block A committed and broadcast.
C23_Witness ==
    /\ ~boot.mine
    /\ peer_node.agreed
    /\ peer_node.wire # <<>>
    /\ log.event = "added"
    /\ blockchain.chain = peer_node.chain

(* ---------------- lock discipline of the node's tasks ----------------- *)

\* The tasks of one node: the mining task and two connection handlers.
Handlers == {"h1", "h2"}
Tasks == {"miner"} \cup Handlers

\* One step of a task that matters to the locks: taking or releasing a guard of the
\* chain or of the mempool, or waiting (a network read or write, a sleep, a broadcast).
AcquireRead(l) == [op |-> "acquire", on |-> l, mode |-> "read"]
AcquireWrite(l) == [op |-> "acquire", on |-> l, mode |-> "write"]
Release(l) == [op |-> "release", on |-> l, mode |-> "none"]
Await(what) == [op |-> "await", on |-> what, mode |-> "none"]

\* start_mining up to the decision: the sleep, then should_mine under the pool's read guard.
LoopHead == <<Await("sleep"), AcquireRead("pool"), Release("pool")>>

\* mine_block up to the end of the proof of work: pool_size, the snapshot, the drain.
MineHead ==
    <<AcquireRead("pool"), Release("pool"),
      AcquireRead("chain"), Release("chain"),
      AcquireWrite("pool"), Release("pool")>>

\* The loop turn in which mine_block commits its block, which is then broadcast.
MineCommitPath ==
    LoopHead \o MineHead \o
    <<AcquireRead("chain"), Release("chain"),
      AcquireWrite("chain"), Release("chain"),
      Await("broadcast"), Await("sleep")>>

\* The loop turn in which the check finds the chain already that long.
MineStalePath ==
    LoopHead \o MineHead \o
    <<AcquireRead("chain"), AcquireWrite("pool"), Release("pool"), Release("chain"),
      Await("sleep")>>

\* The loop turn in which the double check under the write guard fails.
MineChangedPath ==
    LoopHead \o MineHead \o
    <<AcquireRead("chain"), Release("chain"),
      AcquireWrite("chain"), AcquireWrite("pool"), Release("pool"), Release("chain"),
      Await("sleep")>>

\* The loop turn in which the pool is empty and a reward transaction is pushed.
RewardPath == LoopHead \o <<AcquireWrite("pool"), Release("pool")>>

\* A handler that takes the mempool before the chain.
NewBlockAddedPathPoolFirst ==
    <<Await("read"), AcquireRead("chain"), Release("chain"),
      AcquireWrite("pool"), AcquireWrite("chain"), Release("chain"), Release("pool")>>

\* handle_connection, NewBlock: the block is appended under the chain's write guard and
\* the pool cleaned under the pool's write guard, taken inside it.
NewBlockAddedPath ==
    <<Await("read"), AcquireRead("chain"), Release("chain"),
      AcquireWrite("chain"), AcquireWrite("pool"), Release("pool"), Release("chain")>>

\* handle_connection, NewBlock: the double check under the write guard fails.
NewBlockChangedPath ==
    <<Await("read"), AcquireRead("chain"), Release("chain"),
      AcquireWrite("chain"), Release("chain")>>

\* handle_connection, NewBlock: the block is beyond the tail; request_blockchain runs
\* (best_len, the exchange with a peer, the replacement).
NewBlockForkPath ==
    <<Await("read"), AcquireRead("chain"), Release("chain"),
      AcquireRead("chain"), Release("chain"),
      Await("write"), Await("read"),
      AcquireWrite("chain"), Release("chain")>>

\* handle_connection, NewBlock: the block is only logged.
NewBlockIgnoredPath == <<Await("read"), AcquireRead("chain"), Release("chain")>>

\* handle_connection, NewTransaction.
NewTransactionPath == <<Await("read"), AcquireWrite("pool"), Release("pool")>>

\* handle_connection, RequestBlockchain: respond_blockchain.
RespondPath == <<Await("read"), AcquireRead("chain"), Release("chain"), Await("write")>>

MinerPaths == {MineCommitPath, MineStalePath, MineChangedPath, RewardPath}
HandlerPaths ==
    {NewBlockAddedPath, NewBlockChangedPath, NewBlockForkPath, NewBlockIgnoredPath,
     NewTransactionPath, RespondPath}
PathsOf(t) == IF t = "miner" THEN MinerPaths ELSE HandlerPaths

TaskIdle == [path |-> <<>>, pos |-> 1, held |-> {}]

\* The step task t is about to take.
AtEnd(t) == tasks[t].pos > Len(tasks[t].path)
NextOp(t) == tasks[t].path[tasks[t].pos]

\* RwLock: any number of readers or one writer.
Holders(l, mode) == {t \in Tasks : <<l, mode>> \in tasks[t].held}
Grantable(t, o) ==
    /\ Holders(o.on, "write") \ {t} = {}
    /\ o.mode = "write" => Holders(o.on, "read") \ {t} = {}

\* A task with no path takes one: a loop turn of the miner, a connection for a handler.
TaskBegin(t) ==
    /\ AtEnd(t)
    /\ \E p \in PathsOf(t) : tasks' = [tasks EXCEPT ![t] = [path |-> p, pos |-> 1, held |-> {}]]
    /\ UNCHANGED <<blockchain, tx_pool, miner, conn, sync, log, committed, observed, sent,
                   heard, seed_peers, seed_reply, boot, ret, serve, bcast, peer_node>>

\* read() or write() on a lock returns.
TaskAcquire(t) ==
    /\ ~AtEnd(t)
    /\ NextOp(t).op = "acquire"
    /\ Grantable(t, NextOp(t))
    /\ tasks' = [tasks EXCEPT ![t].pos = @ + 1,
                              ![t].held = @ \cup {<<NextOp(t).on, NextOp(t).mode>>}]
    /\ UNCHANGED <<blockchain, tx_pool, miner, conn, sync, log, committed, observed, sent,
                   heard, seed_peers, seed_reply, boot, ret, serve, bcast, peer_node>>

\* A guard is dropped.
TaskRelease(t) ==
    /\ ~AtEnd(t)
    /\ NextOp(t).op = "release"
    /\ tasks' = [tasks EXCEPT ![t].pos = @ + 1,
                              ![t].held = {h \in @ : h[1] # NextOp(t).on}]
    /\ UNCHANGED <<blockchain, tx_pool, miner, conn, sync, log, committed, observed, sent,
                   heard, seed_peers, seed_reply, boot, ret, serve, bcast, peer_node>>

\* An .await on the network or on the timer completes.
TaskAwait(t) ==
    /\ ~AtEnd(t)
    /\ NextOp(t).op = "await"
    /\ tasks' = [tasks EXCEPT ![t].pos = @ + 1]
    /\ UNCHANGED <<blockchain, tx_pool, miner, conn, sync, log, committed, observed, sent,
                   heard, seed_peers, seed_reply, boot, ret, serve, bcast, peer_node>>

InitLocks ==
    /\ blockchain = NewBlockchain(Difficulty, 1)
    /\ NodeAtRest
    /\ sync = [s \in Syncs |-> SyncIdle]
    /\ observed = FALSE
    /\ seed_peers = {}
    /\ seed_reply = NoReply
    /\ ret = "none"
    /\ boot = BootDone
    /\ serve = [c \in Conns |-> NoServe]
    /\ bcast = NoBcast
    /\ peer_node = NoPeerNode
    /\ tasks = [t \in Tasks |-> TaskIdle]

NextLocks ==
    \/ \E t \in Tasks : TaskBegin(t)
    \/ \E t \in Tasks : TaskAcquire(t)
    \/ \E t \in Tasks : TaskRelease(t)
    \/ \E t \in Tasks : TaskAwait(t)

SpecLocks == InitLocks /\ [][NextLocks]_vars

\* Task t can take its next step.
CanStep(t) == AtEnd(t) \/ NextOp(t).op # "acquire" \/ Grantable(t, NextOp(t))

(* C24: the tasks take the locks in the order chain, then mempool: no task  *)
(* asks for the chain while it holds the mempool, no task holds a lock      *)
(* while it waits on the network, the timer or a broadcast, and in no state *)
(* is every task blocked.                                                   *)
C24_LockOrder ==
    /\ \A t \in Tasks :
          (~AtEnd(t) /\ NextOp(t).op = "acquire" /\ NextOp(t).on = "chain")
              => \A h \in tasks[t].held : h[1] # "pool"
    /\ \A t \in Tasks :
          (~AtEnd(t) /\ NextOp(t).op = "await") => tasks[t].held = {}
    /\ \E t \in Tasks : CanStep(t)

\* A handler holds the chain's and the mempool's write guards while the miner and the
\* other handler each wait for a lock.
C24_Witness ==
    /\ <<"chain", "write">> \in tasks["h1"].held
    /\ <<"pool", "write">> \in tasks["h1"].held
    /\ ~AtEnd("miner") /\ NextOp("miner").op = "acquire" /\ ~CanStep("miner")
    /\ ~AtEnd("h2") /\ NextOp("h2").op = "acquire" /\ ~CanStep("h2")

(* --------------------------- chain progress --------------------------- *)

\* The lengths of the chain the node may have when run_node starts the mining task:
\* the genesis block alone, or a chain copied from a peer.
BootLengths == 1..MaxChain

\* The node after run_node started the mining task.
InitProgress ==
    /\ \E n \in BootLengths :
          /\ blockchain = PeerChain(n)
          /\ boot = [BootDone EXCEPT !.chain_len = n, !.synced = (n > 1)]
    /\ NodeAtRest
    /\ sync = [s \in Syncs |-> SyncIdle]
    /\ observed = FALSE
    /\ seed_peers = {}
    /\ seed_reply = NoReply
    /\ ret = "none"
    /\ BeyondAtRest

\* The mining task and inbound transactions; no block arrives.
NextProgress ==
    \/ MinerCheckPool
    \/ MinerPushReward
    \/ MineSnapshot
    \/ MineDrain
    \/ MineCheck
    \/ MineCommit
    \/ MinerBroadcast
    \/ RecvNewTransaction

\* One step of the mining task other than the proof-of-work search.
MinerStep ==
    \/ MinerCheckPool
    \/ MinerPushReward
    \/ MineSnapshot
    \/ MineCheck
    \/ MineCommit
    \/ MinerBroadcast

\* The proof-of-work search of mine_block ends: the task does not stay in it.
MiningEnds == []<>(miner.pc # "drain")

\* The mining task is scheduled again and again: the timer fires, the locks are
\* granted, the proof-of-work search ends and broadcast_new_block returns.
SpecProgressFair ==
    InitProgress /\ [][NextProgress]_vars /\ WF_vars(MinerStep) /\ MiningEnds

(* C25: with mining enabled, a non-empty chain and an empty mempool, a      *)
(* fairly scheduled miner and no inbound block, the chain eventually gets   *)
(* longer, and it does so again from every length it reaches (up to the     *)
(* length the model stops at).                                              *)
C25_ChainProgress ==
    \A n \in 1..(2 * MaxChain) :
        (Len(blockchain.chain) = n /\ n < ChainCap /\ tx_pool = <<>>)
            ~> (Len(blockchain.chain) > n)

\* The miner has committed a block that was mined from an empty mempool's reward.
C25_Witness ==
    /\ boot.chain_len > 0
    /\ Len(blockchain.chain) = boot.chain_len + 1
    /\ miner.pc = "broadcast"
    /\ miner.new_block.transactions = <<RewardTx>>

(* ------------- the node open to blocks and transactions --------------- *)

\* Transaction::verify.  A signature is taken to be valid when it is the signature the
\* holder of the public key makes over the content hash: "sigA" under "keyA" over T1's.
Verify(tx) ==
    IF tx.from = <<"coinbase">> THEN TRUE
    ELSE IF tx.signature = "None" \/ tx.public_key = "None" THEN FALSE
    ELSE tx.signature = "sigA" /\ tx.public_key = "keyA" /\ TxHash(tx) = TxHash(T1)

\* The transfers other nodes send: unsigned, and signed.
OpenTxs == {T1, T1s}

\* A block another node built on this node's tail with difficulty 0: any hash proves it.
EasyBlock(bc) == Mine(NewBlock(ExpectedIndex(bc), ExpectedPrev(bc), <<>>, 0, 2))

RecvEasyBlock == \E c \in Conns : HandleNewBlock(c, EasyBlock(blockchain))

RecvOpenTransaction == \E t \in OpenTxs : \E c \in Conns : HandleNewTransaction(c, t)

\* The node after run_node built its chain (the genesis block, or a peer's chain that
\* holds the signed transfer) and started the mining task.
InitOpen == InitProgress

NextOpen ==
    \/ MinerCheckPool
    \/ MinerPushReward
    \/ MineSnapshot
    \/ MineDrain
    \/ MineCheck
    \/ MineCommit
    \/ MinerBroadcast
    \/ RecvOpenTransaction
    \/ RecvEasyBlock
    \/ \E c \in Conns : ConnAppend(c)

SpecOpen == InitOpen /\ [][NextOpen]_vars

(* C26: the difficulty parameter of the node's chain is the configured      *)
(* difficulty, every block of the chain has that difficulty in its field,   *)
(* and so every block's hash starts with at least that many zeros.          *)
C26_FixedDifficulty ==
    /\ blockchain.difficulty = Difficulty
    /\ \A i \in 1..Len(blockchain.chain) :
          /\ blockchain.chain[i].difficulty = Difficulty
          /\ StartsWith(blockchain.chain[i].hash, Repeat0(Difficulty))


\* The content hashes of the non-coinbase transactions of block b.
NonCoinbaseHashes(b) ==
    {TxHash(tx) : tx \in {t \in Range(b.transactions) : t.from # <<"coinbase">>}}

(* C27: no non-coinbase transaction, identified by its content hash, is in  *)
(* two different blocks of the node's chain.                                *)
C27_NoDoubleInclusion ==
    \A i, j \in 1..Len(blockchain.chain) :
        i < j => NonCoinbaseHashes(blockchain.chain[i]) \cap
                 NonCoinbaseHashes(blockchain.chain[j]) = {}

\* The transactions the node makes itself: mine_block's placeholder, the loop's reward.
LocallyMade == {SystemTx, RewardTx}

(* C28: every non-coinbase transaction in a block of the node's chain, and  *)
(* every transaction an inbound NewTransaction put into the mempool,        *)
(* satisfies verify().                                                      *)
C28_SignaturesEnforced ==
    /\ \A i \in 1..Len(blockchain.chain) :
          \A tx \in Range(blockchain.chain[i].transactions) : Verify(tx)
    /\ \A tx \in Range(tx_pool) : tx \notin LocallyMade => Verify(tx)


(* ------------------- a node built with any chain ---------------------- *)

\* Node::new takes the chain it is given: Blockchain::empty, Blockchain::new, or a
\* longer chain; start_mining is then called on it.
InitNode ==
    /\ \E n \in 0..MaxChain :
          /\ blockchain = PeerChain(n)
          /\ boot = [BootDone EXCEPT !.chain_len = n, !.synced = (n > 1)]
    /\ NodeAtRest
    /\ sync = [s \in Syncs |-> SyncIdle]
    /\ observed = FALSE
    /\ seed_peers = {}
    /\ seed_reply = NoReply
    /\ ret = "none"
    /\ BeyondAtRest

\* The mining task and inbound transactions: nothing but mine_block changes the chain.
SpecNode == InitNode /\ [][NextProgress]_vars

(* C29: mine_block on an empty chain that nothing else changes does not     *)
(* abort: its check lets the block through, and its commit makes the block, *)
(* with index 0 and previous hash "0", the first block of the chain and     *)
(* returns it.                                                              *)
C29_EmptyChainMined ==
    [][/\ (blockchain.chain = <<>> /\ MineCheck) => miner'.pc = "commit"
       /\ (blockchain.chain = <<>> /\ MineCommit)
             => /\ blockchain'.chain = <<miner.new_block>>
                /\ miner.new_block.index = 0
                /\ miner.new_block.prev_hash = <<"0">>
                /\ miner'.pc = "broadcast"]_vars


(* ------------------------- content hashes ----------------------------- *)

\* Addresses and amounts of the transfers other nodes send, character by character.
Froms == {<<"a">>, <<"a", "1">>}
Tos == {<<"1">>, <<"b">>}
Amounts == {1, 2, 11}
Transfers == {NewTransaction(f, t, n) : f \in Froms, t \in Tos, n \in Amounts}

\* What a transfer is: sender, receiver, amount.
Triple(tx) == <<tx.from, tx.to, tx.amount>>

\* format!("{}{}{}", self.from, self.to, self.amount)
Preimage(tx) == tx.from \o tx.to \o Dec(tx.amount)

RecvTransfer == \E t \in Transfers : \E c \in Conns : HandleNewTransaction(c, t)

\* The node of run_node with an empty pool; transfers arrive.
InitDedup == Init
NextDedup == RecvTransfer
SpecDedup == InitDedup /\ [][NextDedup]_vars

(* C30: a transfer whose (from, to, amount) differs from that of a pool     *)
(* entry has a different hash preimage from || to || decimal(amount), and   *)
(* the duplicate test of the NewTransaction handler does not take it for    *)
(* that entry.                                                              *)
C30_PreimageInjective ==
    \A t \in Transfers :
        /\ \A i \in 1..Len(tx_pool) :
              Triple(t) # Triple(tx_pool[i]) => Preimage(t) # Preimage(tx_pool[i])
        /\ (\A i \in 1..Len(tx_pool) : Triple(t) # Triple(tx_pool[i])) => ~Exists(tx_pool, t)


(* ------------------- the two whole-chain validations ------------------ *)

\* Block b with one thing changed that a validation looks at: a field changed after
\* mining (the stored hash no longer recomputes, or has too few zeros for the difficulty
\* now stated, or, with difficulty 0, still passes), a hash with the zeros but not the
\* block's, and blocks mined anew with another index or previous hash (hash and proof of
\* work in order, the link not).
Altered(b) ==
    {[b EXCEPT !.index = b.index + 1],
     [b EXCEPT !.prev_hash = ForeignHash],
     [b EXCEPT !.timestamp = b.timestamp + 1],
     [b EXCEPT !.hash = Repeat0(b.difficulty) \o <<"h", "x">>],
     [b EXCEPT !.difficulty = b.difficulty + 3],
     [b EXCEPT !.difficulty = 0],
     Mine(NewBlock(b.index + 1, b.prev_hash, b.transactions, b.difficulty, b.timestamp)),
     Mine(NewBlock(b.index, ForeignHash, b.transactions, b.difficulty, b.timestamp)),
     Mine(NewBlock(0, <<"0">>, b.transactions, b.difficulty, b.timestamp)),
     Mine(NewBlock(b.index, b.prev_hash, <<T1>>, 0, b.timestamp))}

\* Chains as built by the code: none, the genesis block, a peer's chain, this node's own.
BuiltChains ==
    {PeerChain(n) : n \in 0..MaxChain} \cup {LocalFork, NewBlockchain(0, 1)}

\* The chains the validations are given: the built ones, each with one block altered,
\* without its first block, and followed by itself.
ChainsToValidate ==
    BuiltChains
    \cup UNION {UNION {{[bc EXCEPT !.chain[i] = a] : a \in Altered(bc.chain[i])} :
                          i \in 1..Len(bc.chain)} : bc \in BuiltChains}
    \cup {[bc EXCEPT !.chain = Tail(@)] : bc \in {c \in BuiltChains : c.chain # <<>>}}
    \cup {[bc EXCEPT !.chain = @ \o @] : bc \in BuiltChains}

\* The boolean a validation returned.
Returned(fn, ok) == <<fn, IF ok THEN "true" ELSE "false">>

\* blockchain.is_valid()
CallIsValid ==
    /\ ret' = Returned("is_valid", IsValid(blockchain))
    /\ UNCHANGED <<blockchain, seed_peers, seed_reply, boot>>
    /\ UNCHANGED <<tx_pool, miner, conn, sync, log, committed>>
    /\ UNCHANGED <<observed, sent, heard>>
    /\ UNCHANGED beyond

\* validate_blockchain(&blockchain)
CallValidateBlockchain ==
    /\ ret' = Returned("validate_blockchain", ValidateBlockchain(blockchain))
    /\ UNCHANGED <<blockchain, seed_peers, seed_reply, boot>>
    /\ UNCHANGED <<tx_pool, miner, conn, sync, log, committed>>
    /\ UNCHANGED <<observed, sent, heard>>
    /\ UNCHANGED beyond

\* A chain is at hand and no validation has been called.
InitValidate ==
    /\ blockchain \in ChainsToValidate
    /\ ret = Returned("none", FALSE)
    /\ NodeAtRest
    /\ sync = [s \in Syncs |-> SyncIdle]
    /\ observed = FALSE
    /\ seed_peers = {}
    /\ seed_reply = NoReply
    /\ boot = BootDone
    /\ BeyondAtRest

NextValidate ==
    \/ CallIsValid
    \/ CallValidateBlockchain

SpecValidate == InitValidate /\ [][NextValidate]_vars

(* C31: validate_blockchain and Blockchain::is_valid return the same        *)
(* boolean for every chain, the empty chain included: what either has       *)
(* returned for a chain is what the other returns for it.                   *)
C31_ValidationsAgree ==
    /\ ret[1] = "is_valid" => ret = Returned("is_valid", ValidateBlockchain(blockchain))
    /\ ret[1] = "validate_blockchain"
          => ret = Returned("validate_blockchain", IsValid(blockchain))

\* validate_blockchain has turned down a chain of two blocks whose genesis block is in
\* order and whose second block has its hash and proof of work but not the link.
C31_Witness ==
    /\ ret = Returned("validate_blockchain", FALSE)
    /\ Len(blockchain.chain) = 2
    /\ blockchain.chain[1].index = 0
    /\ IsValidPow(blockchain.chain[1])
    /\ IsValidPow(blockchain.chain[2])
    /\ blockchain.chain[2].prev_hash # blockchain.chain[1].hash

====
